---- MODULE Spec2Model ----
(***************************************************************************)
(* Model of the dashboard's utility core (src/utils.py): the CDC epiweek   *)
(* to calendar-date converter, the percent-change metrics, the data        *)
(* quality score, the formatters and the API client.  Each component has   *)
(* its own specification; the variables of the others stay idle in it.     *)
(*                                                                         *)
(* A text string is a sequence of one-character strings, so formatting and *)
(* parsing are real conversions.  A datetime is the record                 *)
(* [year, month, day] (the converter only ever builds midnights).  Every   *)
(* call has an outcome: [kind |-> "return", value |-> v] or                *)
(* [kind |-> "raise", exc |-> name].                                       *)
(***************************************************************************)
EXTENDS Integers, Sequences, FiniteSets, TLC

VARIABLES
    pc,             \* position of the epiweek caller: "call", "returned", "raised", "idle"
    epiweek,        \* argument of the pending / last convert_epiweek_to_date call
    outcome,        \* outcome of the last convert_epiweek_to_date call
    prev_call,      \* the call before it: [epiweek, outcome], or NoCall
    pads_year,      \* whether the platform's strftime zero-pads %Y to 4 digits
    current,        \* arguments of calculate_trend / calculate_admission_change
    previous,
    trend,          \* outcome of calculate_trend(current, previous), or NotCalled
    admission,      \* outcome of calculate_admission_change(current, previous)
    freshness_data, \* argument of calculate_data_quality_score, as the call leaves it
    quality,        \* outcome of calculate_data_quality_score(freshness_data)
    seconds,        \* argument of format_uptime
    uptime,         \* outcome of format_uptime(seconds)
    status,         \* argument of get_status_color
    color,          \* outcome of get_status_color(status)
    value,          \* argument of format_number / format_admission_value
    decimals,       \* second argument of format_number
    number_text,    \* outcome of format_number(value, decimals)
    admission_text, \* outcome of format_admission_value(value)
    api_call,       \* the pending call: "get", "post" or "fetch_from_api"
    exchange,       \* what the HTTP exchange produces: an exception or a response
    json_error_is_request_error, \* whether requests raises its own JSONDecodeError
    api_result,     \* outcome of the call
    messages,       \* messages written by logger.error and st.error, in order
    page_pc,        \* position in render_data_analysis_page: "fetch", "record",
                    \* "traces", "render", "done"
    source,         \* index in sources_to_fetch of the source being handled
    requested,      \* the endpoints requested from the API client so far, in order
    records,        \* response["records"] of the source being handled
    position,       \* number of records of it the record loop has taken
    dates,          \* the four lists the record loop fills
    values,
    lower_bounds,
    upper_bounds,
    all_traces,     \* the traces collected for the chart
    first_forecast_date, \* None, or Some(date string)
    page_warnings,  \* st.warning messages written while loading, in order
    results_container, \* what the results container shows
    dash_pc,        \* position in render_dashboard_page: "status", "admissions",
                    \* "done", "raised"
    health_data,    \* what fetch_from_api gave for /api/v1/health
    data_freshness, \* what it gave for /api/v1/data/freshness
    surveillance_data, \* what it gave for /api/v1/surveillance/current
    metrics,        \* the st.metric calls made so far: [label, value, delta]
    notes,          \* the st.info messages shown
    escaped,        \* the exception that left render_dashboard_page, or None
    module_pc,      \* index of the next def statement of utils.py to execute
    namespace,      \* the line of the definition each helper name is bound to
    calls           \* the helper calls made: arguments and the request passed
                    \* to api_client.get

epi_vars == <<pc, epiweek, outcome, prev_call, pads_year>>
trend_vars == <<current, previous, trend, admission>>
quality_vars == <<freshness_data, quality>>
uptime_vars == <<seconds, uptime>>
status_vars == <<status, color>>
format_vars == <<value, decimals, number_text, admission_text>>
api_vars == <<api_call, exchange, json_error_is_request_error, api_result, messages>>
analysis_vars ==
    <<page_pc, source, requested, records, position, dates, values, lower_bounds,
      upper_bounds, all_traces, first_forecast_date, page_warnings, results_container>>
dash_vars ==
    <<dash_pc, health_data, data_freshness, surveillance_data, metrics, notes, escaped>>

helper_vars == <<module_pc, namespace, calls>>

vars ==
    <<epi_vars, trend_vars, quality_vars, uptime_vars, status_vars, format_vars, api_vars,
      analysis_vars, dash_vars, helper_vars>>

\* the variables of the components a specification leaves idle
not_epi == <<trend_vars, quality_vars, uptime_vars, status_vars, format_vars, api_vars, analysis_vars, dash_vars, helper_vars>>
not_trend == <<epi_vars, quality_vars, uptime_vars, status_vars, format_vars, api_vars, analysis_vars, dash_vars, helper_vars>>
not_quality == <<epi_vars, trend_vars, uptime_vars, status_vars, format_vars, api_vars, analysis_vars, dash_vars, helper_vars>>
not_uptime == <<epi_vars, trend_vars, quality_vars, status_vars, format_vars, api_vars, analysis_vars, dash_vars, helper_vars>>
not_status == <<epi_vars, trend_vars, quality_vars, uptime_vars, format_vars, api_vars, analysis_vars, dash_vars, helper_vars>>
not_format == <<epi_vars, trend_vars, quality_vars, uptime_vars, status_vars, api_vars, analysis_vars, dash_vars, helper_vars>>
not_api == <<epi_vars, trend_vars, quality_vars, uptime_vars, status_vars, format_vars, analysis_vars, dash_vars, helper_vars>>
not_analysis == <<epi_vars, trend_vars, quality_vars, uptime_vars, status_vars, format_vars, api_vars, dash_vars, helper_vars>>
not_dash == <<epi_vars, trend_vars, quality_vars, uptime_vars, status_vars, format_vars, api_vars, analysis_vars, helper_vars>>
not_helper == <<epi_vars, trend_vars, quality_vars, uptime_vars, status_vars, format_vars, api_vars, analysis_vars, dash_vars>>

----------------------------------------------------------------------------
(* Values and outcomes *)

\* An optional integer argument: None, or Some(n)
None == <<>>
Some(n) == <<n>>
NotCalled == [kind |-> "none"]
NoCall == [epiweek |-> None, outcome |-> NotCalled]

Return(v) == [kind |-> "return", value |-> v]
Raise(e) == [kind |-> "raise", exc |-> e]

NA == <<"N", "/", "A">>

\* Python values where their type matters: None, a dict (its keys and the
\* value under each key) and a list
PyNone == [py |-> "None"]
PyDict(ks, f) == [py |-> "dict", keys |-> ks, val |-> f]
PyList(s) == [py |-> "list", items |-> s]
EmptyDict == PyDict({}, <<>>)

----------------------------------------------------------------------------
(* Components at rest *)

EpiIdle ==
    /\ pc = "idle"
    /\ epiweek = None
    /\ outcome = NotCalled
    /\ prev_call = NoCall
    /\ pads_year = FALSE

TrendIdle ==
    /\ current = 0
    /\ previous = 0
    /\ trend = NotCalled
    /\ admission = NotCalled

QualityIdle ==
    /\ freshness_data = PyNone
    /\ quality = NotCalled

UptimeIdle ==
    /\ seconds = 0
    /\ uptime = NotCalled

StatusIdle ==
    /\ status = <<>>
    /\ color = NotCalled

FormatIdle ==
    /\ value = PyNone
    /\ decimals = 0
    /\ number_text = NotCalled
    /\ admission_text = NotCalled

ApiIdle ==
    /\ api_call = "none"
    /\ exchange = NotCalled
    /\ json_error_is_request_error = FALSE
    /\ api_result = NotCalled
    /\ messages = <<>>

AnalysisIdle ==
    /\ page_pc = "idle"
    /\ source = 0
    /\ requested = <<>>
    /\ records = <<>>
    /\ position = 0
    /\ dates = <<>>
    /\ values = <<>>
    /\ lower_bounds = <<>>
    /\ upper_bounds = <<>>
    /\ all_traces = <<>>
    /\ first_forecast_date = None
    /\ page_warnings = <<>>
    /\ results_container = <<>>

DashIdle ==
    /\ dash_pc = "idle"
    /\ health_data = PyNone
    /\ data_freshness = PyNone
    /\ surveillance_data = PyNone
    /\ metrics = <<>>
    /\ notes = <<>>
    /\ escaped = None

HelperNames == {"get_surveillance_historical", "get_surveillance_merged"}

HelperIdle ==
    /\ module_pc = 0
    /\ namespace = [n \in HelperNames |-> 0]
    /\ calls = <<>>

AllIdleBut(c) ==
    /\ c = "epi" \/ EpiIdle
    /\ c = "trend" \/ TrendIdle
    /\ c = "quality" \/ QualityIdle
    /\ c = "uptime" \/ UptimeIdle
    /\ c = "status" \/ StatusIdle
    /\ c = "format" \/ FormatIdle
    /\ c = "api" \/ ApiIdle
    /\ c = "analysis" \/ AnalysisIdle
    /\ c = "dash" \/ DashIdle
    /\ c = "helper" \/ HelperIdle

----------------------------------------------------------------------------
(* Python's datetime, as far as the converter uses it *)

MINYEAR == 1
MAXYEAR == 9999

DAYS_IN_MONTH == <<31, 28, 31, 30, 31, 30, 31, 31, 30, 31, 30, 31>>

RECURSIVE DAYS_BEFORE_MONTH(_)
DAYS_BEFORE_MONTH(month) ==
    IF month = 1 THEN 0 ELSE DAYS_BEFORE_MONTH(month - 1) + DAYS_IN_MONTH[month - 1]

is_leap(year) == year % 4 = 0 /\ (year % 100 # 0 \/ year % 400 = 0)

days_before_year(year) ==
    LET y == year - 1 IN y * 365 + (y \div 4) - (y \div 100) + (y \div 400)

days_before_month(year, month) ==
    DAYS_BEFORE_MONTH(month) + (IF month > 2 /\ is_leap(year) THEN 1 ELSE 0)

ymd2ord(year, month, day) ==
    days_before_year(year) + days_before_month(year, month) + day

DI400Y == days_before_year(401)
DI100Y == days_before_year(101)
DI4Y == days_before_year(5)

MAXORDINAL == ymd2ord(MAXYEAR, 12, 31)

ord2ymd(ordinal) ==
    LET n0 == ordinal - 1
        n400 == n0 \div DI400Y
        r400 == n0 % DI400Y
        n100 == r400 \div DI100Y
        r100 == r400 % DI100Y
        n4 == r100 \div DI4Y
        r4 == r100 % DI4Y
        n1 == r4 \div 365
        n == r4 % 365
        year == n400 * 400 + 1 + n100 * 100 + n4 * 4 + n1
    IN  IF n1 = 4 \/ n100 = 4
        THEN [year |-> year - 1, month |-> 12, day |-> 31]
        ELSE LET leapyear == n1 = 3 /\ (n4 # 24 \/ n100 = 3)
                 leap(m) == IF m > 2 /\ leapyear THEN 1 ELSE 0
                 month0 == (n + 50) \div 32
                 preceding0 == DAYS_BEFORE_MONTH(month0) + leap(month0)
                 month == IF preceding0 > n THEN month0 - 1 ELSE month0
                 preceding ==
                     IF preceding0 > n
                     THEN preceding0 - (DAYS_IN_MONTH[month]
                                        + (IF month = 2 /\ leapyear THEN 1 ELSE 0))
                     ELSE preceding0
             IN  [year |-> year, month |-> month, day |-> n - preceding + 1]

\* datetime(year, month, day): ValueError outside MINYEAR..MAXYEAR
datetime(year, month, day) ==
    IF year < MINYEAR \/ year > MAXYEAR
    THEN Raise("ValueError")
    ELSE Return([year |-> year, month |-> month, day |-> day])

toordinal(dt) == ymd2ord(dt.year, dt.month, dt.day)

\* dt.weekday(): Monday is 0, Sunday is 6
weekday(dt) == (toordinal(dt) + 6) % 7

\* dt + timedelta(days): OverflowError when the sum leaves 0001-01-01..9999-12-31
add_days(dt, days) ==
    LET o == toordinal(dt) + days
    IN  IF o < 1 \/ o > MAXORDINAL
        THEN Raise("OverflowError")
        ELSE Return(ord2ymd(o))

----------------------------------------------------------------------------
(* Text formatting *)

DigitChars == <<"0", "1", "2", "3", "4", "5", "6", "7", "8", "9">>

RECURSIVE str_int(_)
str_int(n) ==
    IF n < 10 THEN <<DigitChars[n + 1]>>
    ELSE str_int(n \div 10) \o <<DigitChars[(n % 10) + 1]>>

RECURSIVE zero_pad(_, _)
zero_pad(s, width) == IF Len(s) >= width THEN s ELSE zero_pad(<<"0">> \o s, width)

\* dt.strftime("%Y-%m-%d"); the C library decides whether %Y is padded to 4 digits
strftime_ymd(dt, pad) ==
    (IF pad THEN zero_pad(str_int(dt.year), 4) ELSE str_int(dt.year))
        \o <<"-">> \o zero_pad(str_int(dt.month), 2)
        \o <<"-">> \o zero_pad(str_int(dt.day), 2)

----------------------------------------------------------------------------
(* convert_epiweek_to_date *)

\* variants of the week check: one week too many, one week too few
valid_week_to_54(week) == ~(week < 1 \/ week > 54)
valid_week_to_52(week) == ~(week < 1 \/ week > 52)

valid_week(week) == ~(week < 1 \/ week > 53)

\* variant: counts to Saturday (weekday 5) instead of Sunday
days_to_saturday(jan_4th) == (5 - weekday(jan_4th)) % 7

\* days from January 4th forward to the next Sunday (0 when it is a Sunday)
days_to_sunday(jan_4th) == (6 - weekday(jan_4th)) % 7

\* variant: goes back a week already when January 4th is a Thursday
week_1_sunday_back_from_thursday(jan_4th) ==
    LET forward == add_days(jan_4th, days_to_sunday(jan_4th))
    IN  IF forward.kind = "raise" THEN forward
        ELSE IF days_to_sunday(jan_4th) > 2
             THEN add_days(forward.value, -7)
             ELSE forward

\* the Sunday the converter takes as the start of week 1
week_1_sunday(jan_4th) ==
    LET forward == add_days(jan_4th, days_to_sunday(jan_4th))
    IN  IF forward.kind = "raise" THEN forward
        ELSE IF days_to_sunday(jan_4th) > 3
             THEN add_days(forward.value, -7)
             ELSE forward

\* variants: week number not reduced by one; days in place of weeks
target_sunday_week_not_reduced(week_1, week) == add_days(week_1, 7 * week)
target_sunday_days_for_weeks(week_1, week) == add_days(week_1, week - 1)

target_sunday(week_1, week) == add_days(week_1, 7 * (week - 1))

\* the body of the try block
convert_epiweek_try(e) ==
    LET year == e \div 100
        week == e % 100
    IN  IF ~valid_week(week) THEN Return(NA)
        ELSE LET jan_4th == datetime(year, 1, 4)
             IN  IF jan_4th.kind = "raise" THEN jan_4th
                 ELSE LET week_1 == week_1_sunday(jan_4th.value)
                      IN  IF week_1.kind = "raise" THEN week_1
                          ELSE LET target == target_sunday(week_1.value, week)
                               IN  IF target.kind = "raise" THEN target
                                   ELSE Return(strftime_ymd(target.value, pads_year))

\* the exception classes the except clause names
Caught == {"ValueError", "TypeError"}

convert_epiweek_to_date(arg) ==
    IF arg = None THEN Return(NA)
    ELSE IF arg[1] <= 0 THEN Return(NA)
    ELSE LET r == convert_epiweek_try(arg[1])
         IN  IF r.kind = "raise" /\ r.exc \in Caught THEN Return(NA) ELSE r

----------------------------------------------------------------------------
(* The epiweek caller: one call, then follow-up calls on related epiweeks *)

FirstYear == 2015
LastYear == 2030
MaxWeek == 55

EdgeYears == {MINYEAR - 1, MINYEAR, MAXYEAR - 1, MAXYEAR, MAXYEAR + 1}
Years == (FirstYear..LastYear) \cup EdgeYears

EpiweekNumbers ==
    {-(FirstYear * 100 + 3), -1, 0} \cup {y * 100 + w : y \in Years, w \in 0..MaxWeek}

EpiweekInputs == {None} \cup {Some(n) : n \in EpiweekNumbers}

YearOf(arg) == arg[1] \div 100
WeekOf(arg) == arg[1] % 100

EpiInit ==
    /\ pc = "call"
    /\ epiweek \in EpiweekInputs
    /\ outcome = NotCalled
    /\ prev_call = NoCall
    /\ pads_year \in BOOLEAN
    /\ AllIdleBut("epi")

\* the pending call runs: it returns a string or lets an exception through
Convert ==
    /\ pc = "call"
    /\ outcome' = convert_epiweek_to_date(epiweek)
    /\ pc' = IF outcome'.kind = "raise" THEN "raised" ELSE "returned"
    /\ UNCHANGED <<epiweek, prev_call, pads_year, not_epi>>

CallWith(n) ==
    /\ pc = "returned"
    /\ n \in EpiweekNumbers
    /\ prev_call' = [epiweek |-> epiweek, outcome |-> outcome]
    /\ epiweek' = Some(n)
    /\ outcome' = NotCalled
    /\ pc' = "call"
    /\ UNCHANGED <<pads_year, not_epi>>

\* the caller goes on to the next epiweek number
NextWeek == epiweek # None /\ CallWith(epiweek[1] + 1)

\* the caller goes on to week 53 of the same year
LastWeek == epiweek # None /\ epiweek[1] > 0 /\ WeekOf(epiweek) # 53
            /\ CallWith(YearOf(epiweek) * 100 + 53)

\* the caller goes on to week 1 of the following year
NextYear == epiweek # None /\ epiweek[1] > 0 /\ CallWith((YearOf(epiweek) + 1) * 100 + 1)

EpiNext == Convert \/ NextWeek \/ LastWeek \/ NextYear

SpecEpiweek == EpiInit /\ [][EpiNext]_vars

----------------------------------------------------------------------------
(* Reading a returned string back as a calendar date *)

IsDigit(c) == \E d \in 1..10 : DigitChars[d] = c
DigitVal(c) == (CHOOSE d \in 1..10 : DigitChars[d] = c) - 1

RECURSIVE ParseInt(_)
ParseInt(s) ==
    IF Len(s) = 0 THEN 0
    ELSE ParseInt(SubSeq(s, 1, Len(s) - 1)) * 10 + DigitVal(s[Len(s)])

\* the fields of <year>-MM-DD, the year being all that precedes "-MM-DD"
ParseYMD(s) ==
    [year |-> ParseInt(SubSeq(s, 1, Len(s) - 6)),
     month |-> ParseInt(SubSeq(s, Len(s) - 4, Len(s) - 3)),
     day |-> ParseInt(SubSeq(s, Len(s) - 1, Len(s)))]

\* <year>-MM-DD naming a day of the calendar, the year written in 1 to 4 digits
IsDateText(s) ==
    /\ Len(s) \in 7..10
    /\ s[Len(s) - 5] = "-" /\ s[Len(s) - 2] = "-"
    /\ \A i \in (1..Len(s)) \ {Len(s) - 5, Len(s) - 2} : IsDigit(s[i])
    /\ LET d == ParseYMD(s)
       IN  /\ d.year \in MINYEAR..MAXYEAR
           /\ d.month \in 1..12
           /\ d.day >= 1
           /\ d.day <= DAYS_IN_MONTH[d.month]
                       + (IF d.month = 2 /\ is_leap(d.year) THEN 1 ELSE 0)

\* YYYY-MM-DD naming a day of the calendar
IsISODate(s) == Len(s) = 10 /\ IsDateText(s)

OrdOf(s) == toordinal(ParseYMD(s))
IsSunday(s) == OrdOf(s) % 7 = 0

ReturnedDate(o) == o.kind = "return" /\ IsISODate(o.value)

Called(n) == pc \in {"returned", "raised"} /\ epiweek = Some(n)
ModelYears == FirstYear..LastYear

Str_2026_01_18 == <<"2", "0", "2", "6", "-", "0", "1", "-", "1", "8">>
Str_2026_01_19 == <<"2", "0", "2", "6", "-", "0", "1", "-", "1", "9">>

----------------------------------------------------------------------------
(* Claims about convert_epiweek_to_date *)

\* C1: for every year y, the call on y*100+1 returns the Sunday of the
\* Sunday-to-Saturday week containing January 4 of y: a Sunday on or before
\* January 4 and at most 6 days before it.
C1_Week1ContainsJan4 ==
    \A y \in ModelYears :
        Called(y * 100 + 1) =>
            /\ ReturnedDate(outcome)
            /\ IsSunday(outcome.value)
            /\ OrdOf(outcome.value) <= ymd2ord(y, 1, 4)
            /\ ymd2ord(y, 1, 4) - OrdOf(outcome.value) <= 6

C3_ValidSunday ==
    \A y \in ModelYears, w \in 1..53 :
        Called(y * 100 + w) =>
            /\ outcome.kind = "return"
            /\ outcome.value # NA
            /\ IsISODate(outcome.value)
            /\ IsSunday(outcome.value)

C3_Witness ==
    /\ Called(LastYear * 100 + 53)
    /\ ReturnedDate(outcome)
    /\ ParseYMD(outcome.value).year = LastYear + 1

\* C4: every call on an integer returns a date string or "N/A" and no
\* exception leaves the function; a year outside the representable range, or
\* a target Sunday past the last representable date (year 9999 week 53),
\* gives "N/A".  (The date string is taken as the platform's %Y-%m-%d writes
\* it: the year field of a year below 1000 may be shorter than 4 digits.)
C4_NoExceptionEscapes ==
    (pc \in {"returned", "raised"} /\ epiweek # None) =>
        /\ outcome.kind = "return"
        /\ (outcome.value = NA \/ IsDateText(outcome.value))
        /\ (YearOf(epiweek) < MINYEAR \/ YearOf(epiweek) > MAXYEAR) => outcome.value = NA
        /\ epiweek = Some(MAXYEAR * 100 + 53) => outcome.value = NA

\* C5: the call returns "N/A" whenever the argument is None, is <= 0, or has
\* a week component below 1 or above 53; None, 0, 202600 and 202654 do.
C5_InvalidInputIsNA ==
    /\ (/\ pc \in {"returned", "raised"}
        /\ \/ epiweek = None
           \/ epiweek[1] <= 0
           \/ WeekOf(epiweek) < 1
           \/ WeekOf(epiweek) > 53)
       => outcome = Return(NA)
    /\ \A n \in {0, 202600, 202654} : Called(n) => outcome = Return(NA)

C5_Witness == Called(202654) /\ outcome = Return(NA)

\* C6: within one year, for every week w in 1..52, the date returned for
\* week w+1 is exactly 7 days after the date returned for week w.
C6_ConsecutiveWeeks ==
    (/\ pc \in {"returned", "raised"}
     /\ prev_call.epiweek # None
     /\ epiweek # None
     /\ WeekOf(prev_call.epiweek) \in 1..52
     /\ epiweek[1] = prev_call.epiweek[1] + 1)
    => /\ YearOf(epiweek) \in ModelYears
          => ReturnedDate(prev_call.outcome) /\ ReturnedDate(outcome)
       /\ (ReturnedDate(prev_call.outcome) /\ ReturnedDate(outcome))
          => OrdOf(outcome.value) = OrdOf(prev_call.outcome.value) + 7

C6_Witness ==
    /\ pc = "returned"
    /\ prev_call.epiweek = Some(FirstYear * 100 + 52)
    /\ epiweek = Some(FirstYear * 100 + 53)
    /\ ReturnedDate(prev_call.outcome)
    /\ ReturnedDate(outcome)

\* C7: week 53 is accepted for every model year, whether or not the year has
\* 53 epiweeks: the call on y*100+53 does not return "N/A", and its date is
\* the date returned for y*100+1 plus exactly 364 days.
C7_Week53Accepted ==
    \A y \in ModelYears :
        Called(y * 100 + 53) =>
            /\ ReturnedDate(outcome)
            /\ prev_call.epiweek = Some(y * 100 + 1)
               => /\ ReturnedDate(prev_call.outcome)
                  /\ OrdOf(outcome.value) = OrdOf(prev_call.outcome.value) + 364

C7_Witness ==
    /\ Called(FirstYear * 100 + 53)
    /\ prev_call.epiweek = Some(FirstYear * 100 + 1)
    /\ ReturnedDate(outcome)

\* the years datetime can represent, among the years the caller uses
RepresentableYears == Years \cap (MINYEAR..MAXYEAR)

Str_2017_01_01 == <<"2", "0", "1", "7", "-", "0", "1", "-", "0", "1">>

Str_2026_12_27 == <<"2", "0", "2", "6", "-", "1", "2", "-", "2", "7">>

AcrossYears(y, w) ==
    /\ Called((y + 1) * 100 + 1)
    /\ prev_call.epiweek = Some(y * 100 + w)

\* C22: for consecutive representable years y, y + 1, the date returned for week 53 of y is
\* the date returned for week 1 of y + 1 or the date 7 days before it, and
\* the date returned for week 52 of y is strictly earlier than the date
\* returned for week 1 of y + 1.
C22_YearBoundary ==
    \A y \in {x \in RepresentableYears : x + 1 \in RepresentableYears} :
        /\ AcrossYears(y, 53) =>
              /\ outcome.kind = "return" /\ IsDateText(outcome.value)
              /\ prev_call.outcome.kind = "return" /\ IsDateText(prev_call.outcome.value)
              /\ OrdOf(outcome.value) - OrdOf(prev_call.outcome.value) \in {0, 7}
        /\ AcrossYears(y, 52) =>
              /\ outcome.kind = "return" /\ IsDateText(outcome.value)
              /\ prev_call.outcome.kind = "return" /\ IsDateText(prev_call.outcome.value)
              /\ OrdOf(prev_call.outcome.value) < OrdOf(outcome.value)

\* week 53 of 2020 and week 1 of 2021 are the same date: the mapping is not
\* injective across the year boundary
C22_Witness ==
    /\ AcrossYears(2020, 53)
    /\ ReturnedDate(outcome)
    /\ prev_call.outcome = outcome

----------------------------------------------------------------------------
(* calculate_trend and calculate_admission_change *)

\* A number is the exact fraction [num, den], den > 0, in lowest terms.  On
\* the integer arguments of this model the floating-point percent falls on
\* the same side of the thresholds as the exact one.
Abs(n) == IF n < 0 THEN -n ELSE n

RECURSIVE GCD(_, _)
GCD(a, b) == IF b = 0 THEN a ELSE GCD(b, a % b)

Frac(n, d) ==
    LET g == GCD(Abs(n), Abs(d))
        sgn == IF d < 0 THEN -1 ELSE 1
    IN  [num |-> sgn * (n \div g), den |-> sgn * (d \div g)]

Greater(f, k) == f.num > k * f.den
Less(f, k) == f.num < k * f.den

\* the three direction marks: chart up, chart down, right arrow
UP == "up"
DOWN == "down"
FLAT == "flat"

TREND_THRESHOLD == 5
ADMISSION_THRESHOLD == 10

\* ((current - previous) / previous) * 100
percent_change(cur, prev) == Frac((cur - prev) * 100, prev)

\* variant: the boundary counts as a change (>= and <= for > and <)
calculate_trend_inclusive(cur, prev) ==
    IF prev = 0 THEN [percent |-> Frac(0, 1), direction |-> FLAT]
    ELSE LET pct == percent_change(cur, prev)
         IN  IF ~Less(pct, TREND_THRESHOLD) THEN [percent |-> pct, direction |-> UP]
             ELSE IF ~Greater(pct, -TREND_THRESHOLD) THEN [percent |-> pct, direction |-> DOWN]
             ELSE [percent |-> pct, direction |-> FLAT]

calculate_trend(cur, prev) ==
    IF prev = 0 THEN [percent |-> Frac(0, 1), direction |-> FLAT]
    ELSE LET pct == percent_change(cur, prev)
         IN  IF Greater(pct, TREND_THRESHOLD) THEN [percent |-> pct, direction |-> UP]
             ELSE IF Less(pct, -TREND_THRESHOLD) THEN [percent |-> pct, direction |-> DOWN]
             ELSE [percent |-> pct, direction |-> FLAT]

\* variants: the generic threshold reused; the boundary counts as a change
calculate_admission_change_generic(cur, prev) == calculate_trend(cur, prev)

calculate_admission_change_inclusive(cur, prev) ==
    IF prev = 0 THEN [percent |-> Frac(0, 1), direction |-> FLAT]
    ELSE LET pct == percent_change(cur, prev)
         IN  IF ~Less(pct, ADMISSION_THRESHOLD) THEN [percent |-> pct, direction |-> UP]
             ELSE IF ~Greater(pct, -ADMISSION_THRESHOLD)
                  THEN [percent |-> pct, direction |-> DOWN]
             ELSE [percent |-> pct, direction |-> FLAT]

calculate_admission_change(cur, prev) ==
    IF prev = 0 THEN [percent |-> Frac(0, 1), direction |-> FLAT]
    ELSE LET pct == percent_change(cur, prev)
         IN  IF Greater(pct, ADMISSION_THRESHOLD) THEN [percent |-> pct, direction |-> UP]
             ELSE IF Less(pct, -ADMISSION_THRESHOLD) THEN [percent |-> pct, direction |-> DOWN]
             ELSE [percent |-> pct, direction |-> FLAT]

----------------------------------------------------------------------------
(* The metrics caller: both functions applied to one (current, previous) *)

MaxValue == 115
MaxNegative == 30

Values == (-MaxNegative)..MaxValue

TrendInit ==
    /\ current \in Values
    /\ previous \in Values
    /\ trend = NotCalled
    /\ admission = NotCalled
    /\ AllIdleBut("trend")

CallTrend ==
    /\ pc = "idle"
    /\ trend = NotCalled
    /\ trend' = Return(calculate_trend(current, previous))
    /\ UNCHANGED <<current, previous, admission, not_trend>>

CallAdmissionChange ==
    /\ pc = "idle"
    /\ admission = NotCalled
    /\ admission' = Return(calculate_admission_change(current, previous))
    /\ UNCHANGED <<current, previous, trend, not_trend>>

TrendNext == CallTrend \/ CallAdmissionChange

SpecTrend == TrendInit /\ [][TrendNext]_vars

----------------------------------------------------------------------------
(* Claims about the percent-change metrics *)

\* (cur - prev) / prev * 100 compared with k, without forming the quotient
ExactAbove(cur, prev, k) ==
    \/ prev > 0 /\ (cur - prev) * 100 > k * prev
    \/ prev < 0 /\ (cur - prev) * 100 < k * prev
ExactBelow(cur, prev, k) ==
    \/ prev > 0 /\ (cur - prev) * 100 < k * prev
    \/ prev < 0 /\ (cur - prev) * 100 > k * prev

\* the returned percent is the exact quotient (cur - prev) / prev * 100
IsPercentOf(f, cur, prev) ==
    f.den > 0 /\ f.num * prev = (cur - prev) * 100 * f.den

Whole(n) == [num |-> n, den |-> 1]
Result(n, dir) == [percent |-> Whole(n), direction |-> dir]
Args(cur, prev) == current = cur /\ previous = prev

\* C8: calculate_trend returns (0, flat) when previous is 0; otherwise the
\* percent (current - previous) / previous * 100 with direction up iff it is
\* above 5, down iff below -5, flat otherwise, +5 and -5 being flat.
C8_TrendRule ==
    trend.kind = "return" =>
        LET r == trend.value
        IN  /\ previous = 0 => r = Result(0, FLAT)
            /\ previous # 0 =>
                /\ IsPercentOf(r.percent, current, previous)
                /\ r.direction = UP <=> ExactAbove(current, previous, 5)
                /\ r.direction = DOWN <=> ExactBelow(current, previous, -5)
                /\ r.direction = FLAT <=>
                       /\ ~ExactAbove(current, previous, 5)
                       /\ ~ExactBelow(current, previous, -5)
            /\ Args(100, 0) => r = Result(0, FLAT)
            /\ Args(110, 100) => r = Result(10, UP)
            /\ Args(94, 100) => r = Result(-6, DOWN)
            /\ Args(102, 100) => r = Result(2, FLAT)
            /\ Args(105, 100) => r = Result(5, FLAT)
            /\ Args(95, 100) => r = Result(-5, FLAT)

C8_Witness == Args(105, 100) /\ trend = Return(Result(5, FLAT))

\* C9: calculate_admission_change returns (0, flat) when previous is 0;
\* otherwise direction up iff the percent is above 10, down iff below -10,
\* flat otherwise: 110 vs 100 is flat, 111 vs 100 is up, 105 vs 100 is flat.
C9_AdmissionRule ==
    admission.kind = "return" =>
        LET r == admission.value
        IN  /\ previous = 0 => r = Result(0, FLAT)
            /\ previous # 0 =>
                /\ IsPercentOf(r.percent, current, previous)
                /\ r.direction = UP <=> ExactAbove(current, previous, 10)
                /\ r.direction = DOWN <=> ExactBelow(current, previous, -10)
                /\ r.direction = FLAT <=>
                       /\ ~ExactAbove(current, previous, 10)
                       /\ ~ExactBelow(current, previous, -10)
            /\ Args(110, 100) => r = Result(10, FLAT)
            /\ Args(111, 100) => r = Result(11, UP)
            /\ Args(105, 100) => r = Result(5, FLAT)

C9_Witness == Args(110, 100) /\ admission = Return(Result(10, FLAT))

\* C10: on one (current, previous) both functions return the same percent,
\* and their directions differ exactly when 5 < |percent| <= 10, where the
\* generic one says up or down and the admission one says flat.
C10_SamePercentBandDiffers ==
    (trend.kind = "return" /\ admission.kind = "return") =>
        LET t == trend.value
            a == admission.value
            inBand == /\ Abs(t.percent.num) > 5 * t.percent.den
                      /\ Abs(t.percent.num) <= 10 * t.percent.den
        IN  /\ t.percent = a.percent
            /\ (t.direction # a.direction) <=> inBand
            /\ inBand => t.direction \in {UP, DOWN} /\ a.direction = FLAT
            /\ previous = 0 => t.direction = a.direction

C10_Witness ==
    /\ Args(110, 100)
    /\ trend = Return(Result(10, UP))
    /\ admission = Return(Result(10, FLAT))

----------------------------------------------------------------------------
(* calculate_data_quality_score *)

S_fresh == <<"f", "r", "e", "s", "h">>
S_stale == <<"s", "t", "a", "l", "e">>
S_missing == <<"m", "i", "s", "s", "i", "n", "g">>
S_Fresh == <<"F", "r", "e", "s", "h">>
S_STALE == <<"S", "T", "A", "L", "E">>
S_unknown == <<"u", "n", "k", "n", "o", "w", "n">>

\* truth value of an object in a condition
truthy(x) ==
    CASE x.py = "None" -> FALSE
      [] x.py = "dict" -> x.keys # {}
      [] x.py = "list" -> Len(x.items) > 0

\* key in x: a key of a dict, an element of a list (the elements here are
\* records, none of which equals a string)
contains(x, key) ==
    CASE x.py = "dict" -> key \in x.keys
      [] x.py = "list" -> FALSE

FracAdd(a, b) == Frac(a.num * b.den + b.num * a.den, a.den * b.den)
FracDivInt(a, n) == Frac(a.num, a.den * n)
FracMulInt(a, n) == Frac(a.num * n, a.den)

\* variant of the lookup below that stores the default in the record
setdefault_status(s) ==
    IF "status" \in DOMAIN s
    THEN [value |-> s.status, dict |-> s]
    ELSE [value |-> S_missing, dict |-> [name |-> s.name, status |-> S_missing]]

\* s.get("status", "missing"): the value read, and the record as the read leaves it
get_status(s) ==
    IF "status" \in DOMAIN s
    THEN [value |-> s.status, dict |-> s]
    ELSE [value |-> S_missing, dict |-> s]

\* variants of the weight table: stale counted in full; capitals accepted
status_weight_stale_full(st) ==
    IF st = S_fresh \/ st = S_stale THEN Frac(1, 1) ELSE Frac(0, 1)

status_weight_any_case(st) ==
    IF st = S_fresh \/ st = S_Fresh THEN Frac(1, 1)
    ELSE IF st = S_stale \/ st = S_STALE THEN Frac(1, 2)
    ELSE Frac(0, 1)

\* status_weights.get(st, 0)
status_weight(st) ==
    IF st = S_fresh THEN Frac(1, 1)
    ELSE IF st = S_stale THEN Frac(1, 2)
    ELSE IF st = S_missing THEN Frac(0, 1)
    ELSE Frac(0, 1)

\* st in status_weights: a status is matched against the keys as written
is_weight_key(st) == st \in {S_fresh, S_stale, S_missing}

RECURSIVE total_score(_)
total_score(sources) ==
    IF Len(sources) = 0 THEN Frac(0, 1)
    ELSE FracAdd(total_score(SubSeq(sources, 1, Len(sources) - 1)),
                 status_weight(get_status(sources[Len(sources)]).value))

\* variant of the guard: only the absence of "sources" is checked
has_no_sources_unguarded(fd) == ~contains(fd, "sources")

\* not freshness_data or "sources" not in freshness_data
has_no_sources(fd) == ~truthy(fd) \/ ~contains(fd, "sources")

\* variant: an empty source list is not turned away
no_records_unchecked(sources) == sources.py = "None"

\* not sources
no_records(sources) == ~truthy(sources)

calculate_data_quality_score(fd) ==
    IF has_no_sources(fd) THEN Return(Frac(0, 1))
    ELSE LET sources == fd.val["sources"]
         IN  IF no_records(sources) THEN Return(Frac(0, 1))
             ELSE IF Len(sources.items) = 0 THEN Raise("ZeroDivisionError")
             ELSE Return(FracMulInt(FracDivInt(total_score(sources.items),
                                               Len(sources.items)), 100))

\* the argument as the call leaves it
data_after_score(fd) ==
    IF has_no_sources(fd) THEN fd
    ELSE LET sources == fd.val["sources"]
         IN  IF no_records(sources) THEN fd
             ELSE PyDict(fd.keys,
                         [k \in fd.keys |->
                             IF k = "sources"
                             THEN PyList([i \in 1..Len(sources.items) |->
                                             get_status(sources.items[i]).dict])
                             ELSE fd.val[k]])

----------------------------------------------------------------------------
(* The score caller: one call on one argument *)

MaxRecords == 3

StatusInputs == {S_fresh, S_stale, S_missing, S_Fresh, S_STALE, S_unknown}

FreshnessRecords ==
    {[name |-> "src"]} \cup {[name |-> "src", status |-> st] : st \in StatusInputs}

RecordLists == UNION {[1..n -> FreshnessRecords] : n \in 0..MaxRecords}

FreshnessInputs ==
    {PyNone, EmptyDict, PyDict({"status"}, [status |-> "ok"]),
     PyDict({"sources"}, [sources |-> PyNone])}
        \cup {PyDict({"sources"}, [sources |-> PyList(l)]) : l \in RecordLists}
        \cup {PyList(l) : l \in RecordLists}

QualityInit ==
    /\ freshness_data \in FreshnessInputs
    /\ quality = NotCalled
    /\ AllIdleBut("quality")

CallQualityScore ==
    /\ quality = NotCalled
    /\ quality' = calculate_data_quality_score(freshness_data)
    /\ freshness_data' = data_after_score(freshness_data)
    /\ UNCHANGED not_quality

QualityNext == CallQualityScore

SpecQuality == QualityInit /\ [][QualityNext]_vars

----------------------------------------------------------------------------
(* Claims about calculate_data_quality_score *)

Rec(st) == [name |-> "src", status |-> st]
WithSources(l) == PyDict({"sources"}, [sources |-> PyList(l)])

\* the argument is a mapping whose "sources" entry is a list
HasSourceList == freshness_data.py = "dict" /\ freshness_data.keys = {"sources"}
                 /\ freshness_data.val["sources"].py = "list"
SourceList == freshness_data.val["sources"].items

HasStatus(r, st) == "status" \in DOMAIN r /\ r.status = st
CountStatus(l, st) == Cardinality({i \in 1..Len(l) : HasStatus(l[i], st)})

\* f is 100 * (fresh + stale / 2) / (number of records)
IsWeightedScore(f, l) ==
    /\ f.den > 0
    /\ f.num * 2 * Len(l)
           = (2 * CountStatus(l, S_fresh) + CountStatus(l, S_stale)) * 100 * f.den

QualityReturned == quality.kind # "none"

C12_NoRecordsIsZero ==
    (/\ QualityReturned
     /\ \/ freshness_data = PyNone
        \/ freshness_data = EmptyDict
        \/ freshness_data = PyList(<<>>)
        \/ freshness_data.py = "dict" /\ "sources" \notin freshness_data.keys
        \/ freshness_data = PyDict({"sources"}, [sources |-> PyNone])
        \/ freshness_data = WithSources(<<>>))
    => quality = Return(Whole(0))

C12_Witness == freshness_data = WithSources(<<>>) /\ quality = Return(Whole(0))

AllFresh(l) == \A i \in 1..Len(l) : HasStatus(l[i], S_fresh)
NoneFreshOrStale(l) ==
    \A i \in 1..Len(l) : ~HasStatus(l[i], S_fresh) /\ ~HasStatus(l[i], S_stale)

\* C13 as stated: for any number of records the score lies in [0, 100], is
\* 100 exactly when every record is "fresh", and is 0 exactly when no record
\* is "fresh" or "stale".
C13_HundredIffAllFresh ==
    (QualityReturned /\ HasSourceList) =>
        /\ quality.kind = "return"
        /\ quality.value.num >= 0
        /\ quality.value.num <= 100 * quality.value.den
        /\ quality.value = Whole(100) <=> AllFresh(SourceList)
        /\ quality.value = Whole(0) <=> NoneFreshOrStale(SourceList)

\* C13, amended: the score lies in [0, 100], is 100 exactly when there is at
\* least one record and every record is "fresh", and is 0 exactly when no
\* record is "fresh" or "stale".
C13_ScoreRange ==
    (QualityReturned /\ HasSourceList) =>
        /\ quality.kind = "return"
        /\ quality.value.num >= 0
        /\ quality.value.num <= 100 * quality.value.den
        /\ quality.value = Whole(100) <=> (Len(SourceList) > 0 /\ AllFresh(SourceList))
        /\ quality.value = Whole(0) <=> NoneFreshOrStale(SourceList)

C13_Witness ==
    /\ freshness_data = WithSources(<<Rec(S_fresh), Rec(S_fresh), Rec(S_fresh)>>)
    /\ quality = Return(Whole(100))

\* C18: calculate_data_quality_score leaves its argument as it was: the
\* same records in the same order with the same fields, also the records
\* that have no status field.
C18_ArgumentUnchanged == [][freshness_data' = freshness_data]_vars

C18_Witness ==
    /\ quality.kind = "return"
    /\ freshness_data = WithSources(<<[name |-> "src"], Rec(S_fresh)>>)

----------------------------------------------------------------------------
(* format_uptime *)

MINUTE == 60
HOUR == 3600
DAY == 86400

\* str(n) of an integer, as an f-string field writes it
py_str(n) == IF n < 0 THEN <<"-">> \o str_int(-n) ELSE str_int(n)

\* variant: each limit belongs to the smaller unit (<= for <)
format_uptime_inclusive(secs) ==
    IF secs <= MINUTE THEN Return(py_str(secs) \o <<"s">>)
    ELSE IF secs <= HOUR THEN Return(py_str(secs \div MINUTE) \o <<"m">>)
    ELSE IF secs <= DAY THEN Return(py_str(secs \div HOUR) \o <<"h">>)
    ELSE Return(py_str(secs \div DAY) \o <<"d">>)

format_uptime(secs) ==
    IF secs < MINUTE THEN Return(py_str(secs) \o <<"s">>)
    ELSE IF secs < HOUR THEN Return(py_str(secs \div MINUTE) \o <<"m">>)
    ELSE IF secs < DAY THEN Return(py_str(secs \div HOUR) \o <<"h">>)
    ELSE Return(py_str(secs \div DAY) \o <<"d">>)

\* The uptime caller: one call on a number of seconds at, just below or just
\* above a multiple of a unit
MaxMultiple == 100

UptimeInputs ==
    {u * q + r : u \in {1, MINUTE, HOUR, DAY}, q \in 0..MaxMultiple, r \in {-1, 0, 1}}

UptimeInit ==
    /\ seconds \in UptimeInputs
    /\ uptime = NotCalled
    /\ AllIdleBut("uptime")

CallFormatUptime ==
    /\ uptime = NotCalled
    /\ uptime' = format_uptime(seconds)
    /\ UNCHANGED <<seconds, not_uptime>>

UptimeNext == CallFormatUptime

SpecUptime == UptimeInit /\ [][UptimeNext]_vars

----------------------------------------------------------------------------
(* Claims about format_uptime *)

\* the text is the decimal numeral of n (no sign, no leading zero) and the unit
IsQuantity(text, n, unit) ==
    /\ Len(text) >= 2
    /\ text[Len(text)] = unit
    /\ LET digits == SubSeq(text, 1, Len(text) - 1)
       IN  /\ \A i \in 1..Len(digits) : IsDigit(digits[i])
           /\ Len(digits) > 1 => digits[1] # "0"
           /\ ParseInt(digits) = n

\* q is the floor of secs / unit
IsFloorQuotient(q, secs, unit) == q * unit <= secs /\ secs < (q + 1) * unit

Uptime(secs, text) == seconds = secs /\ uptime = Return(text)

\* C14: format_uptime(s) is "{s}s" below 60, "{s//60}m" from 60 below 3600,
\* "{s//3600}h" from 3600 below 86400 and "{s//86400}d" from 86400 on, the
\* quotients floored; 45 -> "45s", 90 -> "1m", 7200 -> "2h", 172800 -> "2d".
C14_UptimeUnits ==
    uptime.kind # "none" =>
        /\ uptime.kind = "return"
        /\ (seconds >= 0 /\ seconds < 60) => IsQuantity(uptime.value, seconds, "s")
        /\ seconds < 0 =>
               /\ uptime.value[1] = "-"
               /\ IsQuantity(Tail(uptime.value), -seconds, "s")
        /\ (seconds >= 60 /\ seconds < 3600) =>
               \E q \in 1..59 : /\ IsFloorQuotient(q, seconds, 60)
                                /\ IsQuantity(uptime.value, q, "m")
        /\ (seconds >= 3600 /\ seconds < 86400) =>
               \E q \in 1..23 : /\ IsFloorQuotient(q, seconds, 3600)
                                /\ IsQuantity(uptime.value, q, "h")
        /\ seconds >= 86400 =>
               \E q \in 1..(MaxMultiple + 1) :
                   /\ IsFloorQuotient(q, seconds, 86400)
                   /\ IsQuantity(uptime.value, q, "d")
        /\ seconds = 45 => uptime.value = <<"4", "5", "s">>
        /\ seconds = 90 => uptime.value = <<"1", "m">>
        /\ seconds = 7200 => uptime.value = <<"2", "h">>
        /\ seconds = 172800 => uptime.value = <<"2", "d">>

C14_Witness == Uptime(172800, <<"2", "d">>)

\* the unit a returned text ends in, the number before it, and the length
\* of each unit in seconds
UnitShown(text) == text[Len(text)]
NumberShown(text) == ParseInt(SubSeq(text, 1, Len(text) - 1))
UnitLength(unit) ==
    CASE unit = "s" -> 1 [] unit = "m" -> 60 [] unit = "h" -> 3600 [] unit = "d" -> 86400

\* unit is the largest unit that fits into secs at least once, or seconds
\* when none does
IsLargestFitting(unit, secs) ==
    /\ unit = "s" \/ UnitLength(unit) <= secs
    /\ \A u \in {"m", "h", "d"} : UnitLength(u) > UnitLength(unit) => secs < UnitLength(u)

\* C26: for every non-negative number of seconds the number shown is in
\* 0..59 with "s", 1..59 with "m", 1..23 with "h" and at least 1 with "d", and
\* the unit shown is the largest of d, h, m, s that fits at least once
\* (seconds below 60).
C26_NumberRangeAndUnit ==
    (uptime.kind # "none" /\ seconds >= 0) =>
        /\ uptime.kind = "return"
        /\ \A i \in 1..(Len(uptime.value) - 1) : IsDigit(uptime.value[i])
        /\ UnitShown(uptime.value) \in {"s", "m", "h", "d"}
        /\ UnitShown(uptime.value) = "s" => NumberShown(uptime.value) \in 0..59
        /\ UnitShown(uptime.value) = "m" => NumberShown(uptime.value) \in 1..59
        /\ UnitShown(uptime.value) = "h" => NumberShown(uptime.value) \in 1..23
        /\ UnitShown(uptime.value) = "d" => NumberShown(uptime.value) >= 1
        /\ IsLargestFitting(UnitShown(uptime.value), seconds)

\* one second short of a day is shown as 23 hours
C26_Witness == Uptime(86399, <<"2", "3", "h">>)

----------------------------------------------------------------------------
(* get_status_color *)

UpperCase == <<"A", "B", "C", "D", "E", "F", "G", "H", "I", "J", "K", "L", "M",
               "N", "O", "P", "Q", "R", "S", "T", "U", "V", "W", "X", "Y", "Z">>
LowerCase == <<"a", "b", "c", "d", "e", "f", "g", "h", "i", "j", "k", "l", "m",
               "n", "o", "p", "q", "r", "s", "t", "u", "v", "w", "x", "y", "z">>

lower_char(c) ==
    IF \E i \in 1..Len(UpperCase) : UpperCase[i] = c
    THEN LowerCase[CHOOSE i \in 1..Len(UpperCase) : UpperCase[i] = c]
    ELSE c

\* str.lower()
lower(text) == [i \in 1..Len(text) |-> lower_char(text[i])]

\* the four markers: green, yellow, red and white circle
GREEN == "green"
YELLOW == "yellow"
RED == "red"
WHITE == "white"

\* variant: the status is compared as given, without lower()
get_status_color_case_sensitive(st) ==
    IF st = S_fresh THEN Return(GREEN)
    ELSE IF st = S_stale THEN Return(YELLOW)
    ELSE IF st = S_missing THEN Return(RED)
    ELSE Return(WHITE)

get_status_color(st) ==
    LET status_lower == lower(st)
    IN  IF status_lower = S_fresh THEN Return(GREEN)
        ELSE IF status_lower = S_stale THEN Return(YELLOW)
        ELSE IF status_lower = S_missing THEN Return(RED)
        ELSE Return(WHITE)

\* The color caller: one call on a status in any casing, or on another text
upper_char(c) ==
    IF \E i \in 1..Len(LowerCase) : LowerCase[i] = c
    THEN UpperCase[CHOOSE i \in 1..Len(LowerCase) : LowerCase[i] = c]
    ELSE c

Casings(word) ==
    {[i \in 1..Len(word) |-> IF i \in caps THEN upper_char(word[i]) ELSE word[i]] :
        caps \in SUBSET (1..Len(word))}

OtherTexts ==
    {<<>>, S_unknown, <<"o", "k">>, <<"F", "R", "E", "S">>,
     <<"f", "r", "e", "s", "h", " ">>, <<"s", "t", "a", "l", "e", "d">>,
     <<"m", "i", "s", "s", "i", "n", "g", "!">>, <<"f", "r", "3", "s", "h">>}

StatusTexts == Casings(S_fresh) \cup Casings(S_stale) \cup Casings(S_missing) \cup OtherTexts

StatusInit ==
    /\ status \in StatusTexts
    /\ color = NotCalled
    /\ AllIdleBut("status")

CallGetStatusColor ==
    /\ color = NotCalled
    /\ color' = get_status_color(status)
    /\ UNCHANGED <<status, not_status>>

StatusNext == CallGetStatusColor

SpecStatus == StatusInit /\ [][StatusNext]_vars

----------------------------------------------------------------------------
(* Claims about get_status_color *)

\* text spells word, each letter in either case
Spells(text, word) ==
    /\ Len(text) = Len(word)
    /\ \A i \in 1..Len(word) :
           \/ text[i] = word[i]
           \/ \E k \in 1..Len(LowerCase) : LowerCase[k] = word[i] /\ UpperCase[k] = text[i]

\* C15: get_status_color gives the green marker for any casing of "fresh",
\* the yellow one for any casing of "stale", the red one for any casing of
\* "missing", and the white one for every other status.
C15_ColorIgnoresCase ==
    color.kind # "none" =>
        /\ color.kind = "return"
        /\ color.value = GREEN <=> Spells(status, S_fresh)
        /\ color.value = YELLOW <=> Spells(status, S_stale)
        /\ color.value = RED <=> Spells(status, S_missing)
        /\ color.value = WHITE <=>
               ~(Spells(status, S_fresh) \/ Spells(status, S_stale)
                 \/ Spells(status, S_missing))

C15_Witness == status = <<"M", "i", "s", "S", "I", "N", "g">> /\ color = Return(RED)

----------------------------------------------------------------------------
(* One status given to both functions: as the status of the only record of a
   freshness report, and as the argument of get_status_color *)

OneSource(st) == PyDict({"sources"}, [k \in {"sources"} |-> PyList(<<[name |-> "src", status |-> st]>>)])

BothInit ==
    /\ status \in StatusTexts
    /\ color = NotCalled
    /\ freshness_data = OneSource(status)
    /\ quality = NotCalled
    /\ EpiIdle /\ TrendIdle /\ UptimeIdle /\ FormatIdle /\ ApiIdle /\ AnalysisIdle
    /\ DashIdle /\ HelperIdle

BothNext == CallQualityScore \/ CallGetStatusColor

SpecBoth == BothInit /\ [][BothNext]_vars

\* the word a marker stands for, and the word the weight table matches
MarkerWord(c) ==
    CASE c = GREEN -> S_fresh [] c = YELLOW -> S_stale [] c = RED -> S_missing
      [] OTHER -> <<>>
WeightWord(st) == IF is_weight_key(st) THEN st ELSE <<>>

IsLowerCase(text) ==
    \A i \in 1..Len(text) : \A k \in 1..Len(UpperCase) : text[i] # UpperCase[k]

IsStatusWord(text) ==
    Spells(text, S_fresh) \/ Spells(text, S_stale) \/ Spells(text, S_missing)

\* C27: the score matches a status as written and the marker ignores case.  A
\* record with status "Fresh" or "STALE" (or any casing of fresh or stale
\* with a capital) adds weight 0 to the score, while its marker is green or
\* yellow; on a casing of fresh, stale or missing the word the weight table
\* matches is the word of the marker exactly when the status is all
\* lower-case.
C27_CaseSensitivity ==
    /\ quality # NotCalled =>
          /\ quality = Return(Whole(100)) <=> status = S_fresh
          /\ quality = Return(Whole(50)) <=> status = S_stale
          /\ status \notin {S_fresh, S_stale} => quality = Return(Whole(0))
    /\ color # NotCalled =>
          /\ Spells(status, S_fresh) => color = Return(GREEN)
          /\ Spells(status, S_stale) => color = Return(YELLOW)
          /\ IsStatusWord(status) =>
                (WeightWord(status) = MarkerWord(color.value) <=> IsLowerCase(status))

\* "STALE" counts for nothing in the score and is marked yellow
C27_Witness ==
    /\ status = S_STALE
    /\ quality = Return(Whole(0))
    /\ color = Return(YELLOW)

----------------------------------------------------------------------------
(* format_number and format_admission_value *)

\* A float argument: not-a-number, an infinity, or a finite value held as
\* the exact fraction it stands for
NaN == [py |-> "nan"]
Infinity(sign) == [py |-> "inf", sign |-> sign]
Finite(n, d) == [py |-> "float", frac |-> Frac(n, d)]

\* value is None or np.isnan(value)
is_absent(v) == v = PyNone \/ v = NaN

RECURSIVE Pow10(_)
Pow10(k) == IF k = 0 THEN 1 ELSE 10 * Pow10(k - 1)

\* int(value) of a finite float: the fraction is cut off, toward zero
int_of(f) == IF f.num < 0 THEN -(Abs(f.num) \div f.den) ELSE f.num \div f.den

\* the "," format of a non-negative int: groups of three digits from the right
RECURSIVE group_thousands(_)
group_thousands(n) ==
    IF n < 1000 THEN str_int(n)
    ELSE group_thousands(n \div 1000) \o <<",">> \o zero_pad(str_int(n % 1000), 3)

\* f"{n:,}"
format_grouped(n) == IF n < 0 THEN <<"-">> \o group_thousands(-n) ELSE group_thousands(n)

\* f"{value:.{decimals}f}" of a finite float: the exact value rounded to the
\* given number of decimals, ties to even; a fraction that rounds up to one
\* carries into the whole part
format_fixed(f, places) ==
    LET whole == Abs(f.num) \div f.den
        scaled == (Abs(f.num) % f.den) * Pow10(places)
        q == scaled \div f.den
        r == scaled % f.den
        last_is_odd == IF places = 0 THEN whole % 2 = 1 ELSE q % 2 = 1
        rounded == IF 2 * r > f.den \/ (2 * r = f.den /\ last_is_odd) THEN q + 1 ELSE q
        carry == IF rounded = Pow10(places) THEN 1 ELSE 0
        digits == IF places = 0 THEN <<>>
                  ELSE <<".">> \o zero_pad(str_int(rounded % Pow10(places)), places)
    IN  (IF f.num < 0 THEN <<"-">> ELSE <<>>) \o str_int(whole + carry) \o digits

format_number(v, places) ==
    IF is_absent(v) THEN Return(NA)
    ELSE IF v.py = "inf"
         THEN Return((IF v.sign < 0 THEN <<"-">> ELSE <<>>) \o <<"i", "n", "f">>)
         ELSE Return(format_fixed(v.frac, places))

\* variant: the fraction is cut off toward minus infinity
format_admission_value_floor(v) ==
    IF is_absent(v) THEN Return(NA)
    ELSE IF v.py = "inf" THEN Raise("OverflowError")
         ELSE Return(format_grouped(v.frac.num \div v.frac.den))

format_admission_value(v) ==
    IF is_absent(v) THEN Return(NA)
    ELSE IF v.py = "inf" THEN Raise("OverflowError")
         ELSE Return(format_grouped(int_of(v.frac)))

MaxExponent == 6
MaxDecimals == 3

\* whole parts around each power of ten, so that the text has zero, one and
\* two separators, and fractions in eighths, so that ties occur
WholeParts ==
    {w \in {k * Pow10(e) + r : k \in {1, 2, 5}, e \in 0..MaxExponent, r \in {-1, 0, 1, 234}} :
        w >= 0}
FiniteValues == {Finite(sign * (8 * w + r), 8) : w \in WholeParts, r \in 0..7, sign \in {-1, 1}}
FormatValues == {PyNone, NaN, Infinity(1), Infinity(-1)} \cup FiniteValues

FormatInit ==
    /\ value \in FormatValues
    /\ decimals \in 0..MaxDecimals
    /\ number_text = NotCalled
    /\ admission_text = NotCalled
    /\ AllIdleBut("format")

CallFormatNumber ==
    /\ number_text = NotCalled
    /\ number_text' = format_number(value, decimals)
    /\ UNCHANGED <<value, decimals, admission_text, not_format>>

CallFormatAdmissionValue ==
    /\ admission_text = NotCalled
    /\ admission_text' = format_admission_value(value)
    /\ UNCHANGED <<value, decimals, number_text, not_format>>

FormatNext == CallFormatNumber \/ CallFormatAdmissionValue

SpecFormat == FormatInit /\ [][FormatNext]_vars

----------------------------------------------------------------------------
(* Claims about format_number and format_admission_value *)

\* the text without its sign, and the sign
Unsigned(text) == IF Len(text) > 0 /\ text[1] = "-" THEN Tail(text) ELSE text
IsNegative(text) == Len(text) > 0 /\ text[1] = "-"

\* digits in groups of three counted from the right, "," between the groups
\* and nowhere else, and no leading zero
IsGrouped(text) ==
    /\ Len(text) > 0
    /\ \A i \in 1..Len(text) :
          IF (Len(text) - i + 1) % 4 = 0 THEN text[i] = "," ELSE IsDigit(text[i])
    /\ text[1] = "0" => Len(text) = 1

Digits(text) == SelectSeq(text, IsDigit)

\* n is the whole number left when the fraction of f is dropped
IsTruncationOf(n, f) ==
    /\ n * f.den <= Abs(f.num)
    /\ Abs(f.num) < (n + 1) * f.den

\* C16: when the value is None or NaN both functions return "N/A" and do not
\* raise; for every other finite value format_admission_value returns the
\* value truncated to an integer (toward zero), written with a "," between
\* groups of three digits.
C16_SentinelAndGrouping ==
    /\ (value \in {PyNone, NaN} /\ number_text # NotCalled) => number_text = Return(NA)
    /\ (value \in {PyNone, NaN} /\ admission_text # NotCalled) => admission_text = Return(NA)
    /\ (value \in FiniteValues /\ admission_text # NotCalled) =>
          /\ admission_text.kind = "return"
          /\ IsGrouped(Unsigned(admission_text.value))
          /\ IsTruncationOf(ParseInt(Digits(admission_text.value)), value.frac)
          /\ IsNegative(admission_text.value) <=>
                (value.frac.num < 0 /\ Abs(value.frac.num) >= value.frac.den)

\* -1000234.875 is written "-1,000,234", and with 2 decimals "-1000234.88"
C16_Witness ==
    /\ value = Finite(-8001879, 8)
    /\ decimals = 2
    /\ admission_text =
          Return(<<"-", "1", ",", "0", "0", "0", ",", "2", "3", "4">>)
    /\ number_text =
          Return(<<"-", "1", "0", "0", "0", "2", "3", "4", ".", "8", "8">>)

----------------------------------------------------------------------------
(* APIClient.get, APIClient.post and the dashboard page's fetch_from_api *)

\* The exception classes involved and the direct bases of each
Bases(cls) ==
    CASE cls = "Exception" -> {}
      [] cls = "ValueError" -> {"Exception"}
      [] cls = "json.JSONDecodeError" -> {"ValueError"}
      [] cls = "RequestException" -> {"Exception"}
      [] cls = "HTTPError" -> {"RequestException"}
      [] cls = "ConnectionError" -> {"RequestException"}
      [] cls = "SSLError" -> {"ConnectionError"}
      [] cls = "Timeout" -> {"RequestException"}
      [] cls = "ConnectTimeout" -> {"ConnectionError", "Timeout"}
      [] cls = "ReadTimeout" -> {"Timeout"}
      [] cls = "TooManyRedirects" -> {"RequestException"}
      [] cls = "InvalidJSONError" -> {"RequestException"}
      [] cls = "requests.JSONDecodeError" -> {"InvalidJSONError", "json.JSONDecodeError"}

\* isinstance(an exception of class cls, base): what an except clause tests
RECURSIVE IsInstance(_, _)
IsInstance(cls, base) == cls = base \/ \E b \in Bases(cls) : IsInstance(b, base)

\* a response received: its status code and the text of its body
Response(code, text) == [kind |-> "response", status_code |-> code, text |-> text]

\* response.raise_for_status(): HTTPError for a 4xx or 5xx status
is_error_status(code) == 400 <= code /\ code < 600

\* json.loads of the body texts the model uses
json_loads(text) ==
    CASE text = "{}" -> Return(EmptyDict)
      [] text = "{\"status\": \"ok\"}" -> Return(PyDict({"status"}, [k \in {"status"} |-> "ok"]))
      [] text = "[]" -> Return(PyList(<<>>))
      [] text = "null" -> Return(PyNone)
      [] OTHER -> Raise("json.JSONDecodeError")

\* response.json(): requests from 2.27 on raises its own JSONDecodeError,
\* a RequestException; before that the json module's error came through
response_json(text, own_error) ==
    LET parsed == json_loads(text)
    IN  IF parsed.kind = "raise" /\ own_error THEN Raise("requests.JSONDecodeError")
        ELSE parsed

\* the body of the try block of get and of post: the request is sent, the
\* status checked, the body parsed
try_request(ex, own_error) ==
    IF ex.kind = "raise" THEN ex
    ELSE IF is_error_status(ex.status_code) THEN Raise("HTTPError")
    ELSE response_json(ex.text, own_error)

\* what a call leaves: its outcome and the messages it wrote
Done(o, msgs) == [outcome |-> o, written |-> msgs]

\* variant: no except clause for the remaining request exceptions
get_without_last_clause(ex, own_error) ==
    LET r == try_request(ex, own_error)
    IN  IF r.kind = "return" THEN Done(r, <<>>)
        ELSE IF IsInstance(r.exc, "ConnectionError")
             THEN Done(Return(PyNone), <<"Connection error">>)
        ELSE IF IsInstance(r.exc, "Timeout")
             THEN Done(Return(PyNone), <<"Timeout connecting">>)
        ELSE Done(r, <<>>)

\* APIClient.get: the except clauses are tried in the order written
get(ex, own_error) ==
    LET r == try_request(ex, own_error)
    IN  IF r.kind = "return" THEN Done(r, <<>>)
        ELSE IF IsInstance(r.exc, "ConnectionError")
             THEN Done(Return(PyNone), <<"Connection error">>)
        ELSE IF IsInstance(r.exc, "Timeout")
             THEN Done(Return(PyNone), <<"Timeout connecting">>)
        ELSE IF IsInstance(r.exc, "RequestException")
             THEN Done(Return(PyNone), <<"Request error">>)
        ELSE Done(r, <<>>)

\* APIClient.post
post(ex, own_error) ==
    LET r == try_request(ex, own_error)
    IN  IF r.kind = "return" THEN Done(r, <<>>)
        ELSE IF IsInstance(r.exc, "RequestException")
             THEN Done(Return(PyNone), <<"POST request error">>)
        ELSE Done(r, <<>>)

\* fetch_from_api: api_client.get, and st.error for any Exception it raises
fetch_from_api(ex, own_error) ==
    LET c == get(ex, own_error)
    IN  IF c.outcome.kind = "raise" /\ IsInstance(c.outcome.exc, "Exception")
        THEN Done(Return(PyNone), c.written \o <<"API Error">>)
        ELSE c

\* what session.get / session.post can raise, and the responses received
RequestFailures ==
    {"RequestException", "ConnectionError", "SSLError", "Timeout", "ConnectTimeout",
     "ReadTimeout", "TooManyRedirects"}
StatusCodes == {200, 201, 399, 400, 404, 500, 599}
BodyTexts == {"{}", "{\"status\": \"ok\"}", "[]", "null", "", "<html>"}
Exchanges ==
    {Raise(c) : c \in RequestFailures}
        \cup {Response(code, text) : code \in StatusCodes, text \in BodyTexts}

ApiInit ==
    /\ api_call \in {"get", "post", "fetch_from_api"}
    /\ exchange \in Exchanges
    /\ json_error_is_request_error \in BOOLEAN
    /\ api_result = NotCalled
    /\ messages = <<>>
    /\ AllIdleBut("api")

Finish(done) ==
    /\ api_result = NotCalled
    /\ api_result' = done.outcome
    /\ messages' = messages \o done.written
    /\ UNCHANGED <<api_call, exchange, json_error_is_request_error, not_api>>

CallGet == api_call = "get" /\ Finish(get(exchange, json_error_is_request_error))
CallPost == api_call = "post" /\ Finish(post(exchange, json_error_is_request_error))
CallFetchFromApi ==
    api_call = "fetch_from_api" /\ Finish(fetch_from_api(exchange, json_error_is_request_error))

ApiNext == CallGet \/ CallPost \/ CallFetchFromApi

SpecApi == ApiInit /\ [][ApiNext]_vars

----------------------------------------------------------------------------
(* Claims about the API client *)

\* the exchange failed with a request exception, or came back with a 4xx or
\* 5xx status
RequestFailed ==
    \/ exchange.kind = "raise" /\ IsInstance(exchange.exc, "RequestException")
    \/ exchange.kind = "response" /\ exchange.status_code \in 400..599

\* the value is what the body of a response with a good status parses to
IsParsedBody(v) ==
    /\ exchange.kind = "response"
    /\ exchange.status_code \notin 400..599
    /\ json_loads(exchange.text) = Return(v)

\* C19: get and post return the parsed JSON body or None; a connection
\* error, a timeout, an HTTP error status or any other request exception
\* gives None and no request exception reaches the caller; fetch_from_api
\* never raises, and returns None whenever the client raised.
C19_FailuresGiveNone ==
    api_result # NotCalled =>
        /\ api_call \in {"get", "post"} =>
              /\ RequestFailed => api_result = Return(PyNone)
              /\ api_result.kind = "raise" => ~IsInstance(api_result.exc, "RequestException")
              /\ api_result.kind = "return" =>
                    api_result.value = PyNone \/ IsParsedBody(api_result.value)
              /\ (~RequestFailed /\ api_result.kind = "return" /\ messages = <<>>) =>
                    IsParsedBody(api_result.value)
        /\ api_call = "fetch_from_api" =>
              /\ api_result.kind = "return"
              /\ RequestFailed => api_result = Return(PyNone)
              /\ get(exchange, json_error_is_request_error).outcome.kind = "raise" =>
                    api_result = Return(PyNone)
              /\ api_result.value = PyNone \/ IsParsedBody(api_result.value)

\* the client lets the json module's error through and the wrapper turns it
\* into None
C19_Witness ==
    /\ api_call = "fetch_from_api"
    /\ exchange = Response(200, "<html>")
    /\ ~json_error_is_request_error
    /\ get(exchange, json_error_is_request_error).outcome = Raise("json.JSONDecodeError")
    /\ api_result = Return(PyNone)
    /\ messages = <<"API Error">>

----------------------------------------------------------------------------
(* render_data_analysis_page: loading the two sources and showing the chart *)

FORECAST == "forecast"
HISTORICAL == "historical"

\* variant: the merged source first
sources_to_fetch_merged_first ==
    <<[source_name |-> HISTORICAL, endpoint |-> "/api/v1/surveillance/merged"],
      [source_name |-> FORECAST, endpoint |-> "/api/v1/surveillance/forecasts"]>>

sources_to_fetch ==
    <<[source_name |-> FORECAST, endpoint |-> "/api/v1/surveillance/forecasts"],
      [source_name |-> HISTORICAL, endpoint |-> "/api/v1/surveillance/merged"]>>

\* A record of a response: what record.get gives for "epiweek", for the
\* selected column, for "lower_bound" and for "upper_bound" (None when the key
\* is missing or null)
Record(e, v, lb, ub) == [epiweek |-> e, value |-> v, lower_bound |-> lb, upper_bound |-> ub]

\* the lists and the first forecast date, as one loop iteration finds and
\* leaves them
Collected(d, v, lb, ub, first) ==
    [dates |-> d, values |-> v, lower_bounds |-> lb, upper_bounds |-> ub,
     first_forecast_date |-> first]

\* variant: the first forecast date follows the last record
collect_last_date(record, source_name, c, date_str) ==
    IF date_str.kind = "raise" THEN date_str
    ELSE IF date_str.value = NA THEN Return(c)
    ELSE IF source_name = FORECAST
         THEN Return(Collected(Append(c.dates, date_str.value),
                               Append(c.values, record.value),
                               Append(c.lower_bounds, record.lower_bound),
                               Append(c.upper_bounds, record.upper_bound),
                               Some(date_str.value)))
         ELSE Return(Collected(Append(c.dates, date_str.value),
                               Append(c.values, record.value),
                               c.lower_bounds, c.upper_bounds,
                               c.first_forecast_date))

\* the loop body from the conversion on: date_str is what
\* convert_epiweek_to_date returned, or the exception it let through
collect(record, source_name, c, date_str) ==
    IF date_str.kind = "raise" THEN date_str
    ELSE IF date_str.value = NA THEN Return(c)
    ELSE IF source_name = FORECAST
         THEN Return(Collected(Append(c.dates, date_str.value),
                               Append(c.values, record.value),
                               Append(c.lower_bounds, record.lower_bound),
                               Append(c.upper_bounds, record.upper_bound),
                               IF c.first_forecast_date = None
                               THEN Some(date_str.value)
                               ELSE c.first_forecast_date))
         ELSE Return(Collected(Append(c.dates, date_str.value),
                               Append(c.values, record.value),
                               c.lower_bounds, c.upper_bounds,
                               c.first_forecast_date))

\* variant of the loop body: a value is skipped when it is falsy
take_record_if_truthy(record, source_name, c) ==
    IF record.value = None \/ record.value = Some(0) THEN Return(c)
    ELSE collect(record, source_name, c, convert_epiweek_to_date(record.epiweek))

\* the body of "for record in records": the lists after the record, or the
\* exception convert_epiweek_to_date lets through
take_record(record, source_name, c) ==
    IF record.value = None THEN Return(c)
    ELSE collect(record, source_name, c, convert_epiweek_to_date(record.epiweek))

\* any(b is not None for b in bounds)
any_not_none(bounds) == \E i \in 1..Len(bounds) : bounds[i] # None

\* a trace of the chart: its name and the number of its points
Scatter(name, x) == [name |-> name, points |-> Len(x)]

\* source_name.title()
title(source_name) == IF source_name = FORECAST THEN "Forecast" ELSE "Historical"

\* the traces one source adds once its records are read
traces_of(source_name, d, v, lb, ub) ==
    IF Len(d) > 0 /\ Len(v) > 0
    THEN (IF /\ source_name = FORECAST /\ Len(lb) > 0 /\ Len(ub) > 0
             /\ any_not_none(lb) /\ any_not_none(ub)
          THEN <<Scatter("Upper Bound", d), Scatter("Prediction Interval", d)>>
          ELSE <<>>)
         \o <<Scatter(title(source_name), d)>>
    ELSE <<>>

MaxPageRecords == 2

\* records with a null value, without an epiweek, with a week that is not one,
\* with a value of zero, with both bounds, with one bound, and with an epiweek
\* whose date is past the last representable one
RecordShapes ==
    {Record(Some(202601), None, None, None),
     Record(None, Some(7), None, None),
     Record(Some(202654), Some(7), Some(5), Some(9)),
     Record(Some(202601), Some(0), None, None),
     Record(Some(202602), Some(7), Some(5), Some(9)),
     Record(Some(202603), Some(8), Some(6), None),
     Record(Some(MAXYEAR * 100 + 53), Some(7), None, None)}

PageRecordLists == UNION {[1..n -> RecordShapes] : n \in 0..MaxPageRecords}

\* what api_client.get gives the page: an exception, None, a dict without
\* records, a JSON list, or a dict with a list of records
PageResponses ==
    {Raise("ValueError"), Return(PyNone), Return(EmptyDict),
     Return(PyDict({"status"}, [k \in {"status"} |-> "ok"])),
     Return(PyList(<<>>)), Return(PyList(<<"x">>))}
        \cup {Return(PyDict({"records"}, [k \in {"records"} |-> PyList(l)])) :
                l \in PageRecordLists}

\* response and response.get("records"): the records when there are any, no
\* records otherwise; a list has no get
records_of(response) ==
    IF ~truthy(response) THEN Return(<<>>)
    ELSE IF response.py = "list" THEN Raise("AttributeError")
    ELSE IF ~contains(response, "records") THEN Return(<<>>)
    ELSE Return(response.val["records"].items)

could_not_fetch(source_name) == <<"Could not fetch", source_name>>

AnalysisInit ==
    /\ page_pc = "fetch"
    /\ source = 1
    /\ requested = <<>>
    /\ records = <<>>
    /\ position = 0
    /\ dates = <<>> /\ values = <<>> /\ lower_bounds = <<>> /\ upper_bounds = <<>>
    /\ all_traces = <<>>
    /\ first_forecast_date = None
    /\ page_warnings = <<>>
    /\ results_container = <<>>
    /\ AllIdleBut("analysis")

\* the loop over the sources goes on to the next one, or ends
NextSource ==
    /\ source' = source + 1
    /\ page_pc' = IF source < Len(sources_to_fetch) THEN "fetch" ELSE "render"

\* except Exception: a warning, and on to the next source
Warn ==
    /\ page_warnings' = Append(page_warnings, could_not_fetch(sources_to_fetch[source].source_name))
    /\ NextSource

\* api_client.get for the current source and the test of its response
Fetch ==
    /\ page_pc = "fetch"
    /\ requested' = Append(requested, sources_to_fetch[source].endpoint)
    /\ \E response \in PageResponses :
          LET found == IF response.kind = "raise" THEN response
                       ELSE records_of(response.value)
          IN  IF found.kind = "raise"
              THEN /\ Warn
                   /\ UNCHANGED <<records, position, dates, values, lower_bounds,
                                  upper_bounds>>
              ELSE IF Len(found.value) = 0
              THEN /\ NextSource
                   /\ UNCHANGED <<records, position, dates, values, lower_bounds,
                                  upper_bounds, page_warnings>>
              ELSE /\ records' = found.value
                   /\ position' = 0
                   /\ dates' = <<>> /\ values' = <<>>
                   /\ lower_bounds' = <<>> /\ upper_bounds' = <<>>
                   /\ page_pc' = "record"
                   /\ UNCHANGED <<source, page_warnings>>
    /\ UNCHANGED <<all_traces, first_forecast_date, results_container, not_analysis>>

\* the record loop goes on with the lists as the record left them, or the
\* exception ends it
Proceed(taken) ==
    IF taken.kind = "raise"
    THEN /\ Warn
         /\ UNCHANGED <<dates, values, lower_bounds, upper_bounds, first_forecast_date>>
    ELSE /\ dates' = taken.value.dates
         /\ values' = taken.value.values
         /\ lower_bounds' = taken.value.lower_bounds
         /\ upper_bounds' = taken.value.upper_bounds
         /\ first_forecast_date' = taken.value.first_forecast_date
         /\ page_pc' = IF position' = Len(records) THEN "traces" ELSE "record"
         /\ UNCHANGED <<source, page_warnings>>

\* one iteration of the record loop
ProcessRecord ==
    /\ page_pc = "record"
    /\ position < Len(records)
    /\ position' = position + 1
    /\ Proceed(take_record(records[position + 1], sources_to_fetch[source].source_name,
                           Collected(dates, values, lower_bounds, upper_bounds,
                                     first_forecast_date)))
    /\ UNCHANGED <<requested, records, all_traces, results_container, not_analysis>>

\* after the record loop: the traces of the source are added
BuildTraces ==
    /\ page_pc = "traces"
    /\ all_traces' = all_traces \o traces_of(sources_to_fetch[source].source_name, dates,
                                              values, lower_bounds, upper_bounds)
    /\ NextSource
    /\ UNCHANGED <<requested, records, position, dates, values, lower_bounds,
                   upper_bounds, first_forecast_date, page_warnings,
                   results_container, not_analysis>>

NO_DATA == "No data available for the selected date range and columns"

\* the chart with its reference lines, or the warning
Render ==
    /\ page_pc = "render"
    /\ results_container' =
          IF Len(all_traces) > 0
          THEN <<[kind |-> "chart", data |-> all_traces,
                  lines |-> <<"Today">> \o (IF first_forecast_date # None
                                            THEN <<"First Forecast">> ELSE <<>>)]>>
          ELSE <<[kind |-> "warning", text |-> NO_DATA]>>
    /\ page_pc' = "done"
    /\ UNCHANGED <<source, requested, records, position, dates, values, lower_bounds,
                   upper_bounds, all_traces, first_forecast_date, page_warnings,
                   not_analysis>>

AnalysisNext == Fetch \/ ProcessRecord \/ BuildTraces \/ Render

SpecAnalysis == AnalysisInit /\ [][AnalysisNext]_vars

----------------------------------------------------------------------------
(* Claims about render_data_analysis_page *)

\* the record loop of the current source is running or has just ended
InRecordLoop == page_pc \in {"record", "traces"}
SourceName == sources_to_fetch[source].source_name

\* the records the loop has taken so far, in API order
Taken == SubSeq(records, 1, position)

\* the record has a value and its epiweek converts to a date
Contributes(r) ==
    /\ r.value # None
    /\ convert_epiweek_to_date(r.epiweek).kind = "return"
    /\ convert_epiweek_to_date(r.epiweek).value # NA

Contributing == SelectSeq(Taken, Contributes)

\* C23: at every point of the record loop dates and values have the same
\* length, and for the forecast source so have lower_bounds and upper_bounds;
\* the lists hold, in API order, the converted dates and the values of exactly
\* the records taken so far whose value is not null and whose epiweek
\* converts to something other than "N/A".
C23_ListsInStep ==
    InRecordLoop =>
        /\ Len(dates) = Len(values)
        /\ SourceName = FORECAST =>
              Len(lower_bounds) = Len(dates) /\ Len(upper_bounds) = Len(dates)
        /\ Len(dates) = Len(Contributing)
        /\ \A i \in 1..Len(Contributing) :
              /\ dates[i] = convert_epiweek_to_date(Contributing[i].epiweek).value
              /\ values[i] = Contributing[i].value
              /\ SourceName = FORECAST =>
                    /\ lower_bounds[i] = Contributing[i].lower_bound
                    /\ upper_bounds[i] = Contributing[i].upper_bound

\* two forecast records read, the first without a value, the second with a
\* value of zero
C23_Witness ==
    /\ page_pc = "traces"
    /\ SourceName = FORECAST
    /\ position = 2
    /\ records[1].value = None
    /\ records[2].value = Some(0)
    /\ values = <<Some(0)>>
    /\ upper_bounds = <<None>>

\* C24: first_forecast_date, once set, is never changed, and it is not
\* changed while a source other than the forecast is handled; while the
\* forecast records are read it is the converted date of the first record
\* taken that has a value and a convertible epiweek, and None when there has
\* been no such record.
C24_FirstForecastDate ==
    /\ [](InRecordLoop /\ SourceName = FORECAST =>
            first_forecast_date =
                IF Len(Contributing) = 0 THEN None
                ELSE Some(convert_epiweek_to_date(Contributing[1].epiweek).value))
    /\ [][/\ first_forecast_date # None => first_forecast_date' = first_forecast_date
          /\ (source > Len(sources_to_fetch) \/ SourceName # FORECAST) =>
                first_forecast_date' = first_forecast_date]_vars

Str_2026_01_11 == <<"2", "0", "2", "6", "-", "0", "1", "-", "1", "1">>

\* the historical records are read, two of them with other dates, and the
\* date is still that of the forecast's first contributing record
C24_Witness ==
    /\ page_pc = "traces"
    /\ SourceName = HISTORICAL
    /\ first_forecast_date = Some(Str_2026_01_11)
    /\ Len(dates) = 2
    /\ dates[1] # Str_2026_01_11

BothEndpoints == <<"/api/v1/surveillance/forecasts", "/api/v1/surveillance/merged">>

\* C25: the forecasts are requested first and the merged data second, both
\* in every render whatever the first request or its records led to; at the
\* end the results container shows the chart, with all traces, when there is
\* at least one trace, and the "No data available" warning alone otherwise.
C25_BothSourcesThenChart ==
    /\ requested = SubSeq(BothEndpoints, 1, Len(requested))
    /\ page_pc \in {"render", "done"} => requested = BothEndpoints
    /\ (page_pc \in {"record", "traces"} /\ source = 2) => requested = BothEndpoints
    /\ page_pc = "done" =>
          /\ Len(results_container) = 1
          /\ results_container[1].kind = "chart" <=> Len(all_traces) > 0
          /\ results_container[1].kind = "chart" => results_container[1].data = all_traces
          /\ Len(all_traces) = 0 =>
                results_container = <<[kind |-> "warning", text |-> NO_DATA]>>

\* the forecast records could not be processed, the merged ones were, and
\* the chart shows them
C25_Witness ==
    /\ page_pc = "done"
    /\ page_warnings = <<could_not_fetch(FORECAST)>>
    /\ results_container[1].kind = "chart"
    /\ results_container[1].data = <<Scatter("Historical", <<1, 2>>)>>

----------------------------------------------------------------------------
(* render_dashboard_page: the System Status row and the Hospital Admissions row *)

\* d.get(key, default)
dict_get(d, key, default) == IF key \in d.keys THEN d.val[key] ELSE default

\* word in text
contains_text(text, word) ==
    \E i \in 0..(Len(text) - Len(word)) : SubSeq(text, i + 1, i + Len(word)) = word

\* st.metric(label, value, delta)
Metric(label, shown, delta) == [label |-> label, value |-> shown, delta |-> delta]

S_healthy == <<"h", "e", "a", "l", "t", "h", "y">>

api_status_metric(health) ==
    Metric("API Status",
           IF dict_get(health, "status", "unknown") = "operational"
           THEN "Operational" ELSE "Down",
           dict_get(health, "version", ""))

database_metric(health) ==
    Metric("Database",
           IF contains_text(lower(dict_get(dict_get(health, "components", EmptyDict),
                                           "database", S_unknown)), S_healthy)
           THEN "Connected" ELSE "Error",
           "")

uptime_metric(health) ==
    LET hours == dict_get(health, "uptime_seconds", 0) \div HOUR
    IN  Metric("Uptime",
               IF hours > 0 THEN py_str(hours) \o <<"h">> ELSE <<"<", " ", "1", "h">>,
               "")

\* s.get("status") == "fresh"
is_fresh(s) == "status" \in DOMAIN s /\ s.status = S_fresh

\* sum(1 for s in sources if s.get("status") == "fresh")
RECURSIVE fresh_count(_)
fresh_count(sources) ==
    IF Len(sources) = 0 THEN 0
    ELSE fresh_count(SubSeq(sources, 1, Len(sources) - 1))
         + (IF is_fresh(sources[Len(sources)]) THEN 1 ELSE 0)

\* a / b
true_div(a, b) == IF b = 0 THEN Raise("ZeroDivisionError") ELSE Return(Frac(a, b))

\* int(x) of the outcome of a division
int_of_quotient(q) == IF q.kind = "raise" THEN q ELSE Return(int_of(q.value))

\* variant: the division is made whatever the number of sources
freshness_percent_unguarded(fresh, total) == int_of_quotient(true_div(100 * fresh, total))

\* int(100*fresh_count/total_count if total_count else 0)
freshness_percent(fresh, total) ==
    IF total # 0 THEN int_of_quotient(true_div(100 * fresh, total)) ELSE Return(0)

\* the Data Freshness metric for a count and its percentage
counted_metric(fresh, total, percent) ==
    IF percent.kind = "raise" THEN percent
    ELSE Return(Metric("Data Freshness",
                       py_str(fresh) \o <<"/">> \o py_str(total)
                           \o <<" ", "F", "r", "e", "s", "h">>,
                       py_str(percent.value) \o <<"%">>))

\* the third column: a list has no get, and None in place of the sources
\* cannot be iterated
freshness_metric(freshness) ==
    IF freshness.py = "list" THEN Raise("AttributeError")
    ELSE IF dict_get(freshness, "sources", PyList(<<>>)).py # "list" THEN Raise("TypeError")
    ELSE counted_metric(fresh_count(dict_get(freshness, "sources", PyList(<<>>)).items),
                        Len(dict_get(freshness, "sources", PyList(<<>>)).items),
                        freshness_percent(
                            fresh_count(dict_get(freshness, "sources", PyList(<<>>)).items),
                            Len(dict_get(freshness, "sources", PyList(<<>>)).items)))

\* latest_admission.get("hospital_admissions", 0)
admissions_of(record) ==
    IF "hospital_admissions" \in DOMAIN record THEN record.hospital_admissions ELSE 0

latest_metric(record) ==
    Metric("Latest Admissions", format_admission_value(Finite(admissions_of(record), 1)).value, "")

epiweek_metric(record) ==
    Metric("Epiweek", IF "epiweek" \in DOMAIN record THEN py_str(record.epiweek) ELSE NA, "")

\* f"{direction} {pct_change:.1f}%"
change_text(change) == <<change.direction, " ">> \o format_fixed(change.percent, 1) \o <<"%">>

change_metric(surveillance) ==
    Metric("Change",
           change_text(calculate_admission_change(admissions_of(surveillance[1]),
                                                  admissions_of(surveillance[2]))),
           "")

\* the three columns of the admissions row
admission_metrics(surveillance) ==
    <<latest_metric(surveillance[1]), epiweek_metric(surveillance[1])>>
        \o (IF Len(surveillance) > 1 THEN <<change_metric(surveillance)>> ELSE <<>>)

MaxSources == 3
MaxAdmissions == 3

HealthInputs ==
    {PyNone,
     PyDict({"status"}, [k \in {"status"} |-> "down"]),
     PyDict({"status", "version", "components", "uptime_seconds"},
            [status |-> "operational", version |-> "1.0",
             components |-> PyDict({"database"},
                                   [k \in {"database"} |-> <<"H", "e", "a", "l", "t", "h", "y">>]),
             uptime_seconds |-> 7200])}

SourceShapes ==
    {[name |-> "src"], [name |-> "src", status |-> S_fresh],
     [name |-> "src", status |-> S_Fresh], [name |-> "src", status |-> S_stale]}

SourceLists == UNION {[1..n -> SourceShapes] : n \in 0..MaxSources}

DashFreshnessInputs ==
    {PyNone, EmptyDict, PyDict({"status"}, [k \in {"status"} |-> "ok"]),
     PyDict({"sources"}, [k \in {"sources"} |-> PyNone]),
     PyList(<<[name |-> "src"]>>)}
        \cup {PyDict({"sources"}, [k \in {"sources"} |-> PyList(l)]) : l \in SourceLists}

AdmissionShapes ==
    {[epiweek |-> 202601]}
        \cup {[epiweek |-> 202601, hospital_admissions |-> n] : n \in {0, 100, 115}}

AdmissionLists == UNION {[1..n -> AdmissionShapes] : n \in 0..MaxAdmissions}

SurveillanceInputs ==
    {PyNone, EmptyDict}
        \cup {PyDict({"records"}, [k \in {"records"} |-> PyList(l)]) : l \in AdmissionLists}

DashInit ==
    /\ dash_pc = "status"
    /\ health_data = PyNone
    /\ data_freshness = PyNone
    /\ surveillance_data = PyNone
    /\ metrics = <<>>
    /\ notes = <<>>
    /\ escaped = None
    /\ AllIdleBut("dash")

\* the System Status row with its third column as given: shown in full, or
\* cut short by the exception the third column raised
StatusRow(third) ==
    IF third.kind = "raise"
    THEN /\ metrics' = metrics \o <<api_status_metric(health_data'), database_metric(health_data')>>
         /\ escaped' = Some(third.exc)
         /\ dash_pc' = "raised"
    ELSE /\ metrics' = metrics \o <<api_status_metric(health_data'), database_metric(health_data'),
                                    third.value, uptime_metric(health_data')>>
         /\ escaped' = escaped
         /\ dash_pc' = "admissions"

\* the two fetches and the System Status row
ShowStatus ==
    /\ dash_pc = "status"
    /\ health_data' \in HealthInputs
    /\ data_freshness' \in DashFreshnessInputs
    /\ IF truthy(health_data') /\ truthy(data_freshness')
       THEN StatusRow(freshness_metric(data_freshness'))
       ELSE /\ dash_pc' = "admissions"
            /\ UNCHANGED <<metrics, escaped>>
    /\ UNCHANGED <<surveillance_data, notes, not_dash>>

\* the fetch of the current surveillance records and the admissions row
ShowAdmissions ==
    /\ dash_pc = "admissions"
    /\ surveillance_data' \in SurveillanceInputs
    /\ IF truthy(surveillance_data') /\ truthy(dict_get(surveillance_data', "records", PyNone))
       THEN /\ metrics' = metrics \o admission_metrics(surveillance_data'.val["records"].items)
            /\ notes' = notes
       ELSE /\ notes' = Append(notes, "No admission data available")
            /\ metrics' = metrics
    /\ dash_pc' = "done"
    /\ UNCHANGED <<health_data, data_freshness, escaped, not_dash>>

DashNext == ShowStatus \/ ShowAdmissions

SpecDash == DashInit /\ [][DashNext]_vars

----------------------------------------------------------------------------
(* Claims about render_dashboard_page *)

Shown(label) == \E i \in 1..Len(metrics) : metrics[i].label = label
MetricShown(label) == metrics[CHOOSE i \in 1..Len(metrics) : metrics[i].label = label]

\* the sources of the freshness report, none when it has no list of sources
SourcesGiven ==
    IF /\ data_freshness.py = "dict" /\ "sources" \in data_freshness.keys
       /\ data_freshness.val["sources"].py = "list"
    THEN data_freshness.val["sources"].items
    ELSE <<>>

FreshGiven ==
    Cardinality({i \in 1..Len(SourcesGiven) :
                    /\ "status" \in DOMAIN SourcesGiven[i]
                    /\ SourcesGiven[i].status = S_fresh})

SurveillanceGiven ==
    IF surveillance_data.py = "dict" /\ "records" \in surveillance_data.keys
    THEN surveillance_data.val["records"].items
    ELSE <<>>

\* the text is "<n>%"
IsPercentText(text, n) ==
    /\ Len(text) >= 2
    /\ text[Len(text)] = "%"
    /\ \A i \in 1..(Len(text) - 1) : IsDigit(text[i])
    /\ ParseInt(SubSeq(text, 1, Len(text) - 1)) = n

\* C28: no ZeroDivisionError leaves the page.  When the Data Freshness metric
\* is shown, with fresh_count the number of sources whose status is exactly
\* "fresh" and total_count the number of sources: 0 <= fresh_count <=
\* total_count, the value reads "fresh_count/total_count Fresh", and the
\* percentage shown is floor(100 * fresh_count / total_count), in 0..100, when
\* total_count > 0 and 0 when total_count = 0.  The Change metric is shown
\* only when there are at least two surveillance records.
C28_FreshnessAndChange ==
    /\ escaped # Some("ZeroDivisionError")
    /\ Shown("Data Freshness") =>
          /\ 0 <= FreshGiven /\ FreshGiven <= Len(SourcesGiven)
          /\ MetricShown("Data Freshness").value =
                <<DigitChars[FreshGiven + 1], "/", DigitChars[Len(SourcesGiven) + 1],
                  " ", "F", "r", "e", "s", "h">>
          /\ \E p \in 0..100 :
                /\ IsPercentText(MetricShown("Data Freshness").delta, p)
                /\ Len(SourcesGiven) = 0 => p = 0
                /\ Len(SourcesGiven) > 0 =>
                      /\ p * Len(SourcesGiven) <= 100 * FreshGiven
                      /\ 100 * FreshGiven < (p + 1) * Len(SourcesGiven)
    /\ Shown("Change") => Len(SurveillanceGiven) >= 2

\* a report with an empty list of sources is shown as "0/0 Fresh", 0%, and
\* the change between two records is shown
C28_Witness ==
    /\ dash_pc = "done"
    /\ data_freshness = PyDict({"sources"}, [k \in {"sources"} |-> PyList(<<>>)])
    /\ Shown("Data Freshness")
    /\ MetricShown("Data Freshness").delta = <<"0", "%">>
    /\ Len(SurveillanceGiven) = 2
    /\ Shown("Change")

----------------------------------------------------------------------------
(* The surveillance helpers of utils.py that are defined twice *)

\* An argument of a call: left out, or given; a given value is None or Some(v)
Omitted == [given |-> FALSE]
Given(v) == [given |-> TRUE, value |-> v]

\* the value the parameter takes: the default when the argument is left out
bound_to(arg, default) == IF arg.given THEN arg.value ELSE default

\* truth value of an optional string and of an optional integer
is_true_text(x) == x # None /\ x[1] # ""
is_true_number(x) == x # None /\ x[1] # 0

\* params[key] = v; the values are kept as they are passed, None or Some(v)
dict_set(d, key, v) ==
    PyDict(d.keys \cup {key},
           [k \in d.keys \cup {key} |-> IF k = key THEN v ELSE d.val[k]])

\* params["location"] = location, under "if location:"
with_location(params, location) ==
    IF is_true_text(location) THEN dict_set(params, "location", location) ELSE params

\* api_client.get(endpoint, params=params): the request handed to the client
Request(endpoint, params) == [endpoint |-> endpoint, params |-> params]

\* def get_surveillance_historical at line 304
get_surveillance_historical_304(location_arg, days_arg) ==
    LET location == bound_to(location_arg, None)
        days == bound_to(days_arg, Some(365))
    IN  Request("/api/v1/surveillance/historical",
                with_location(dict_set(EmptyDict, "days", days), location))

\* def get_surveillance_merged at line 314
get_surveillance_merged_314(location_arg, limit_arg) ==
    LET location == bound_to(location_arg, None)
        limit == bound_to(limit_arg, Some(100))
    IN  Request("/api/v1/surveillance",
                with_location(dict_set(dict_set(EmptyDict, "limit", limit),
                                       "data_type", Some("merged")),
                              location))

\* def get_surveillance_historical at line 336
get_surveillance_historical_336(location_arg, days_arg) ==
    LET location == bound_to(location_arg, None)
        days == bound_to(days_arg, None)
        located == with_location(EmptyDict, location)
    IN  Request("/api/v1/surveillance/historical",
                IF is_true_number(days) THEN dict_set(located, "days", days)
                ELSE located)

\* def get_surveillance_merged at line 368
get_surveillance_merged_368(location_arg, limit_arg) ==
    LET location == bound_to(location_arg, None)
        limit == bound_to(limit_arg, Some(100))
    IN  Request("/api/v1/surveillance/merged",
                with_location(dict_set(EmptyDict, "limit", limit), location))

\* the def statements of the two names, in the order the module executes them
Definitions ==
    << [name |-> "get_surveillance_historical", line |-> 304],
       [name |-> "get_surveillance_merged", line |-> 314],
       [name |-> "get_surveillance_historical", line |-> 336],
       [name |-> "get_surveillance_merged", line |-> 368] >>

\* variant: a name that is already bound keeps its first definition
bind_first_definition(ns, d) ==
    IF ns[d.name] # 0 THEN ns ELSE [ns EXCEPT ![d.name] = d.line]

\* a def statement binds its name in the module's namespace, bound or not
bind(ns, d) == [ns EXCEPT ![d.name] = d.line]

\* the call of a name runs the definition the name is bound to
call_historical(ns, location_arg, days_arg) ==
    IF ns["get_surveillance_historical"] = 304
    THEN get_surveillance_historical_304(location_arg, days_arg)
    ELSE get_surveillance_historical_336(location_arg, days_arg)

call_merged(ns, location_arg, limit_arg) ==
    IF ns["get_surveillance_merged"] = 314
    THEN get_surveillance_merged_314(location_arg, limit_arg)
    ELSE get_surveillance_merged_368(location_arg, limit_arg)

MaxCalls == 2
MaxDays == 2
MaxLimit == 2

LocationArgs == {Omitted, Given(None), Given(Some("")), Given(Some("CA"))}
DaysArgs == {Omitted, Given(None)} \cup {Given(Some(n)) : n \in 0..MaxDays}
LimitArgs == {Omitted} \cup {Given(Some(n)) : n \in 0..MaxLimit}

HelperInit ==
    /\ module_pc = 1
    /\ namespace = [n \in HelperNames |-> 0]
    /\ calls = <<>>
    /\ AllIdleBut("helper")

\* the import of utils.py executes the next def statement
Define ==
    /\ module_pc \in 1..Len(Definitions)
    /\ namespace' = bind(namespace, Definitions[module_pc])
    /\ module_pc' = module_pc + 1
    /\ UNCHANGED <<calls, not_helper>>

\* the module is imported: its names can be called
Imported == module_pc = Len(Definitions) + 1

RecordCall(helper, location_arg, second_arg, request) ==
    /\ Imported
    /\ Len(calls) < MaxCalls
    /\ calls' = Append(calls, [helper |-> helper, location |-> location_arg,
                               second |-> second_arg, request |-> request])
    /\ UNCHANGED <<module_pc, namespace, not_helper>>

CallHistorical ==
    \E location_arg \in LocationArgs, days_arg \in DaysArgs :
        RecordCall("get_surveillance_historical", location_arg, days_arg,
               call_historical(namespace, location_arg, days_arg))

CallMerged ==
    \E location_arg \in LocationArgs, limit_arg \in LimitArgs :
        RecordCall("get_surveillance_merged", location_arg, limit_arg,
               call_merged(namespace, location_arg, limit_arg))

HelperNext == Define \/ CallHistorical \/ CallMerged

SpecHelper == HelperInit /\ [][HelperNext]_vars

----------------------------------------------------------------------------
(* Claims about the helpers defined twice *)

\* the argument is given, and is neither None nor the empty value
GivenAndNot(arg, empty) ==
    arg.given /\ arg.value # None /\ arg.value[1] # empty

\* the request carries the parameter exactly when wanted, with the value given
Carries(request, key, arg, wanted) ==
    /\ key \in request.params.keys <=> wanted
    /\ wanted => request.params.val[key] = arg.value

\* C29: every call of get_surveillance_merged requests
\* "/api/v1/surveillance/merged" and sends no data_type parameter; every call
\* of get_surveillance_historical sends days exactly when days is given and
\* non-zero, and location exactly when location is given and non-empty.
C29_LaterDefinitionInEffect ==
    \A i \in 1..Len(calls) :
        LET call == calls[i] IN
        /\ call.helper = "get_surveillance_merged" =>
              /\ call.request.endpoint = "/api/v1/surveillance/merged"
              /\ "data_type" \notin call.request.params.keys
        /\ call.helper = "get_surveillance_historical" =>
              /\ Carries(call.request, "days", call.second,
                         GivenAndNot(call.second, 0))
              /\ Carries(call.request, "location", call.location,
                         GivenAndNot(call.location, ""))

\* get_surveillance_historical was called without days, and
\* get_surveillance_merged after it
C29_Witness ==
    /\ Len(calls) = 2
    /\ calls[1].helper = "get_surveillance_historical"
    /\ calls[1].second = Omitted
    /\ calls[1].location = Given(Some("CA"))
    /\ calls[1].request.params.keys = {"location"}
    /\ calls[2].helper = "get_surveillance_merged"
    /\ calls[2].request.endpoint = "/api/v1/surveillance/merged"

============================================================================
